---- MODULE Spec2Model ----
(***************************************************************************)
(* Model of the Emby session monitor (scripts/monitor.py): the run loop,   *)
(* one tick of process_sessions split at the handler calls it makes        *)
(* (_record_session_start per fetched session, _record_session_end per     *)
(* vanished session), the concurrency check and the alert path.            *)
(* Two smaller machines stand beside it: one call of                       *)
(* WebhookNotifier._send_request (scripts/webhook_notifier.py), which the  *)
(* monitor never makes, and the two clock readings of one session's life   *)
(* at a finer grain than the check interval.                               *)
(*                                                                         *)
(* Strings that the code transforms (user names, remote end points) are    *)
(* sequences of one-character strings, so that strip(), lower() and        *)
(* split(':')[0] are computed and not assumed.                             *)
(***************************************************************************)
EXTENDS Integers, Sequences, FiniteSets, TLC

VARIABLES
    whitelist,        \* self.whitelist: the preprocessed list
    auto_disable,     \* self.auto_disable
    alert_threshold,  \* self.alert_threshold
    alerts_enabled,   \* self.alerts_enabled
    active_sessions,  \* self.active_sessions: session id -> session_data
    pc,               \* position of the run loop
    fetch_ok,         \* did get_active_sessions of the current tick return
    current_ids,      \* keys of current_sessions of the current tick
    pending,          \* keys _detect_new_sessions has still to iterate over
    ended,            \* ids _detect_ended_sessions has still to iterate over
    calls,            \* handler and collaborator calls of the current tick, in order
    detected,         \* ids detected as new with no end detected since
    playback_history, \* the table of the database: per session id, its rows
                      \* and those of them without end_time
    now,              \* datetime.now(), in check intervals, taken as 1 s
    url,              \* WebhookNotifier.url
    retry_attempts,   \* WebhookNotifier.retry_attempts
    attempt,          \* the loop variable of _send_request
    posts,            \* what each requests.post of the call did, in order
    sent,             \* what _send_request returned
    wpc,              \* position of the call of _send_request
    clock,            \* what datetime.now() reads, in units of 1/UnitsPerSecond s
    started_at,       \* session_data['start_time'] of the one timed session
    ended_at,         \* end_time of _record_session_end for it
    db_duration,      \* the duration handed to db.record_session_end
    spc               \* position in the life of the timed session

monitor == <<whitelist, auto_disable, alert_threshold, alerts_enabled,
             active_sessions, pc, fetch_ok, current_ids, pending, ended,
             calls, detected, playback_history, now>>

webhook == <<url, retry_attempts, attempt, posts, sent, wpc>>

stopwatch == <<clock, started_at, ended_at, db_duration, spc>>

vars == <<monitor, webhook, stopwatch>>

config == <<whitelist, auto_disable, alert_threshold, alerts_enabled>>

----------------------------------------------------------------------------
(* Bounds of the model *)

MaxTime == 1
MaxThreshold == 2
MaxRetry == 3
MaxClock == 7

(* rows of playback_history left by earlier runs *)
MaxLeft == 1

(* resolution of the modelled clock: half seconds *)
UnitsPerSecond == 2

SessionIds == {"s1", "s2"}
Users == {"u1", "u2"}

(* user names the media server may report: " A" and "b" *)
RawNames == { <<" ", "A">>, <<"b">> }

(* config['security']['whitelist'] as written in the file: none, or " a ", "  " *)
RawWhitelists == { <<>>, << <<" ", "a", " ">>, <<" ", " ">> >> }

(* RemoteEndPoint values: "1:9" and "2" *)
EndPoints == { <<"1", ":", "9">>, <<"2">> }

----------------------------------------------------------------------------
(* str.strip(), str.lower(), str.split(':')[0] *)

RECURSIVE LStrip(_)
LStrip(s) == IF s # <<>> /\ Head(s) = " " THEN LStrip(Tail(s)) ELSE s

RECURSIVE RStrip(_)
RStrip(s) ==
    IF s # <<>> /\ s[Len(s)] = " " THEN RStrip(SubSeq(s, 1, Len(s) - 1)) ELSE s

Strip(s) == RStrip(LStrip(s))

LowerChar(c) == CASE c = "A" -> "a" [] c = "B" -> "b" [] OTHER -> c

Lower(s) == [i \in 1..Len(s) |-> LowerChar(s[i])]

RECURSIVE SplitFirst(_)
SplitFirst(s) ==
    IF s = <<>> \/ Head(s) = ":" THEN <<>> ELSE <<Head(s)>> \o SplitFirst(Tail(s))

----------------------------------------------------------------------------
(* Inputs: what the collaborators may answer *)

(* a session descriptor of the fetched dict; Id and UserId may be missing *)
RawSessions ==
    [hasId : {TRUE}, hasUserId : {TRUE}, UserId : Users, RemoteEndPoint : EndPoints]
    \cup { [hasId |-> TRUE, hasUserId |-> FALSE, UserId |-> "u1",
            RemoteEndPoint |-> <<"2">>],
           [hasId |-> FALSE, hasUserId |-> TRUE, UserId |-> "u1",
            RemoteEndPoint |-> <<"2">>] }

(* emby.get_user_info(user_id): raises, or a dict with a 'Name' *)
UserInfos ==
    { [raises |-> TRUE, hasName |-> FALSE, Name |-> <<>>] }
    \cup [raises : {FALSE}, hasName : {TRUE}, Name : RawNames]

(* emby.get_active_sessions(): raises, or a dict with these keys *)
FetchResults ==
    { [ok |-> FALSE, ids |-> {}] } \cup [ok : {TRUE}, ids : SUBSET SessionIds]

(* what the media server answers to the policy request of disable_user *)
DisableResponses ==
    { [raises |-> TRUE, status_code |-> 0] }
    \cup [raises : {FALSE}, status_code : {200, 204, 500}]

(* the default of user_info.get('Name', ...) *)
DefaultName == <<"?">>

(* one entry of the tick's trace: a handler entered, a collaborator called
   (ok: it returned normally, or for disable_user returned True), the
   insertion into active_sessions, or a line the monitor printed; the entry of _record_session_start carries in ok
   whether the session it was given has its 'Id' and 'UserId', get_user_info
   whether it returned; a record_session_end entry carries the user, name and
   IP of the session_data it was made for *)
Ev(op, sid, user_id, username, ip, n, ok) ==
    [op |-> op, sid |-> sid, user_id |-> user_id, username |-> username,
     ip |-> ip, n |-> n, ok |-> ok]

Note(op, sid) == Ev(op, sid, "", <<>>, <<>>, 0, TRUE)

----------------------------------------------------------------------------
(* init_db is CREATE TABLE IF NOT EXISTS: the table keeps what earlier runs
   wrote: per session id no row, rows that were closed, or rows still open
   because the run was stopped while the session was tracked *)
RECURSIVE TotalRows(_, _)
TotalRows(db, ids) ==
    IF ids = {} THEN 0
    ELSE LET sid == CHOOSE s \in ids : TRUE
         IN db[sid].rows + TotalRows(db, ids \ {sid})

(* the tables a run may find, of at most MaxLeft rows *)
TablesLeft ==
    { db \in [SessionIds -> [rows : 0..MaxLeft, open : 0..MaxLeft]] :
        /\ \A sid \in SessionIds : db[sid].open <= db[sid].rows
        /\ TotalRows(db, SessionIds) <= MaxLeft }

----------------------------------------------------------------------------
(* the monitor constructs no WebhookNotifier and calls none *)
NoWebhook ==
    /\ url = ""
    /\ retry_attempts = 0
    /\ attempt = 0
    /\ posts = << >>
    /\ sent = "none"
    /\ wpc = "absent"

(* the monitor's own runs read the clock in whole seconds, as now *)
NoStopwatch ==
    /\ clock = 0
    /\ started_at = 0
    /\ ended_at = 0
    /\ db_duration = 0
    /\ spc = "absent"

----------------------------------------------------------------------------
(* int((end_time - start_time).total_seconds()) *)

(* int() of the quotient: the fraction is cut off, towards zero *)
PyInt(numerator, denominator) ==
    IF numerator >= 0 THEN numerator \div denominator
    ELSE -((-numerator) \div denominator)

(* both readings in units of 1/UnitsPerSecond s *)
Duration(start_time, end_time) == PyInt(end_time - start_time, UnitsPerSecond)

----------------------------------------------------------------------------
(* EmbyMonitor.__init__ *)

RECURSIVE PreprocessWhitelist(_)
PreprocessWhitelist(names) ==
    IF names = <<>> THEN <<>>
    ELSE (IF Strip(Head(names)) # <<>> THEN <<Lower(Strip(Head(names)))>> ELSE <<>>)
         \o PreprocessWhitelist(Tail(names))

Init ==
    /\ whitelist \in { PreprocessWhitelist(w) : w \in RawWhitelists }
    /\ auto_disable \in BOOLEAN
    /\ alert_threshold \in 1..MaxThreshold
    /\ alerts_enabled \in BOOLEAN
    /\ active_sessions = << >>
    /\ pc = "tick"
    /\ fetch_ok = FALSE
    /\ current_ids = {}
    /\ pending = {}
    /\ ended = {}
    /\ calls = << >>
    /\ detected = {}
    /\ playback_history \in TablesLeft
    /\ now = 0
    /\ NoWebhook
    /\ NoStopwatch

----------------------------------------------------------------------------
(* The whitelist test, the location lookup and the concurrency check *)

UserName(info) == Strip(IF info.hasName THEN info.Name ELSE DefaultName)

(* the comparison without lower() *)
IsWhitelistedCaseSensitive(username) ==
    \E i \in 1..Len(whitelist) : whitelist[i] = username

IsWhitelisted(username) ==
    \E i \in 1..Len(whitelist) : whitelist[i] = Lower(username)

(* _get_location never raises; the strings it yields are display text *)
GetLocation(ip_address) ==
    IF ip_address = <<>> THEN "unknown_location" ELSE "resolved"

(* the collection without the test sess['ip'] != new_ip *)
ExistingIpsOwnIncluded(sessions, user_id, new_ip) ==
    { sessions[s].ip : s \in { t \in DOMAIN sessions :
                                 sessions[t].user_id = user_id } }

ExistingIps(sessions, user_id, new_ip) ==
    { sessions[s].ip : s \in { t \in DOMAIN sessions :
                                 /\ sessions[t].user_id = user_id
                                 /\ sessions[t].ip # new_ip } }

(* the comparison against alert_threshold instead of alert_threshold - 1 *)
IsAbnormalOffByOne(existing_ips) == Cardinality(existing_ips) >= alert_threshold

IsAbnormal(existing_ips) == Cardinality(existing_ips) >= alert_threshold - 1

(* EmbySecurity.disable_user: True for 200 and 204, False for any other
   answer and for an exception *)
DisableUser(response) ==
    ~response.raises /\ response.status_code \in {200, 204}

(* a disable_user that did not raise taken for a success *)
DisableConfirmedUnlessRaised(result) == TRUE

(* the count without the new session's own IP *)
SessionCountOthersOnly(existing_ips) == Cardinality(existing_ips)

(* len(existing_ips)+1, the session_count handed to _trigger_alert *)
SessionCount(existing_ips) == Cardinality(existing_ips) + 1

(* if self.security.disable_user(...): only a True return goes on *)
DisableConfirmed(result) == result

(* _log_security_action: the write may raise; the exception is caught *)
LogSecurityAction(user_id, ip, count, username, logged) ==
    << Ev("log_security_event", "", user_id, username, ip, count, logged) >>
    \o IF logged THEN << >> ELSE << Note("error:security_log_failed", "") >>

(* without the try of _trigger_alert the exception reaches the except of
   _record_session_start *)
ExceptOutsideTriggerAlert(user_id) == << Note("error:start_failed", "") >>

(* except Exception of _trigger_alert: the line it prints for the alert of
   user_id *)
ExceptInTriggerAlert(user_id) == << Note("error:alert_failed", "") >>

(* _trigger_alert: the calls it makes *)
TriggerAlert(user_id, trigger_ip, session_count, info, disabled, logged) ==
    << Ev("_trigger_alert", "", user_id, <<>>, trigger_ip, session_count, TRUE) >>
    \o
    IF info.raises THEN ExceptInTriggerAlert(user_id)
    ELSE LET username == UserName(info) IN
         IF IsWhitelisted(username)
         THEN << Ev("whitelist_protected", "", user_id, username, <<>>, 0, TRUE) >>
         ELSE << Ev("alert_msg", "", user_id, username, trigger_ip,
                    session_count, TRUE) >>
              \o
              IF auto_disable
              THEN << Ev("disable_user", "", user_id, username, <<>>, 0, disabled) >>
                   \o IF DisableConfirmed(disabled)
                      THEN LogSecurityAction(user_id, trigger_ip, session_count,
                                             username, logged)
                      ELSE << >>
              ELSE << >>

(* _check_login_abnormality *)
CheckLoginAbnormality(sessions, user_id, new_ip, info, disabled, logged) ==
    IF ~alerts_enabled THEN << >>
    ELSE LET existing_ips == ExistingIps(sessions, user_id, new_ip) IN
         IF IsAbnormal(existing_ips)
         THEN TriggerAlert(user_id, new_ip, SessionCount(existing_ips),
                           info, disabled, logged)
         ELSE << >>

----------------------------------------------------------------------------
(* The two handlers, as functions of the map and of the collaborators'     *)
(* answers: each yields the map and the calls it made                      *)

(* session['UserId'] and session['Id'] raise KeyError when the key is absent *)
HasUserId(session) == session.hasUserId

HasIdDefaulted(session) == TRUE

(* the insertion reached whether or not the write raised *)
WriteReturnedOrCaught(stored) == TRUE

(* the abnormality check made before the session is stored and inserted *)
CheckStoreInsert(write, insertion, check) == check \o write \o insertion

(* lines 78 to 83 in their order: the write, the insertion into
   active_sessions, then _check_login_abnormality *)
StoreInsertCheck(write, insertion, check) == write \o insertion \o check

(* self.db.record_session_start(session_data) returned: the next statement,
   the insertion, is reached only then *)
WriteReturned(stored) == stored

HasId(session) == session.hasId

(* _record_session_start(session), for the item stored under `key`.
   session['Id'], where present, is the key of the item in the fetched dict.
   stored: db.record_session_start returned (it raised otherwise).
   The device, client and media strings of session_data are copied display
   text and are left out; parse_media_info is taken to return. *)
RecordSessionStart(sessions, key, session, info, stored, info2, disabled, logged) ==
    LET entered == << Ev("_record_session_start", key, "", <<>>, <<>>, 0,
                         session.hasId /\ session.hasUserId) >>
        missing == [map |-> sessions,
                    calls |-> entered \o << Note("error:missing_field", key) >>]
        lookup == << Ev("get_user_info", key, session.UserId, <<>>, <<>>, 0,
                        ~info.raises) >>
        failed == [map |-> sessions,
                   calls |-> entered \o lookup
                             \o << Note("error:start_failed", key) >>]
    IN
    IF ~HasUserId(session) THEN missing                   \* KeyError: 'UserId'
    ELSE IF info.raises THEN failed                       \* get_user_info raised
    ELSE
    LET user_id == session.UserId
        ip_address == SplitFirst(session.RemoteEndPoint)
        username == UserName(info)
    IN
    IF IsWhitelisted(username)
    THEN [map |-> sessions,
          calls |-> entered \o lookup
                    \o << Ev("whitelist_skip", key, user_id, username, <<>>, 0, TRUE) >>]
    ELSE IF ~HasId(session)                               \* KeyError: 'Id'
    THEN [map |-> sessions,
          calls |-> entered \o lookup \o << Note("error:missing_field", key) >>]
    ELSE
    LET session_data == [user_id |-> user_id, username |-> username,
                         ip |-> ip_address, start_time |-> now,
                         location |-> GetLocation(ip_address)]
        write == << Ev("record_session_start", key, user_id, username,
                       ip_address, 0, stored) >>
    IN
    IF ~WriteReturned(stored)
    THEN [map |-> sessions,
          calls |-> entered \o lookup \o write
                    \o << Note("error:start_failed", key) >>]
    ELSE
    LET inserted == [s \in DOMAIN sessions \cup {key} |->
                        IF s = key THEN session_data ELSE sessions[s]]
        insertion == << Ev("insert", key, user_id, username, ip_address, 0, TRUE) >>
    IN [map |-> inserted,
        calls |-> entered \o lookup
                  \o StoreInsertCheck(write, insertion,
                        CheckLoginAbnormality(inserted, user_id, ip_address,
                                              info2, disabled, logged))]

(* _record_session_end without the del of the map entry *)
RecordSessionEndKeepsEntry(sessions, session_id, stored) ==
    IF session_id \notin DOMAIN sessions
    THEN [map |-> sessions,
          calls |-> << Note("warning:no_such_session", session_id) >>]
    ELSE
    LET session_data == sessions[session_id]
        write == << Ev("record_session_end", session_id, session_data.user_id,
                       session_data.username, session_data.ip,
                       Duration(session_data.start_time * UnitsPerSecond,
                                now * UnitsPerSecond), stored) >>
    IN [map |-> sessions,
        calls |-> IF stored THEN write
                  ELSE write \o << Note("error:end_failed", session_id) >>]

(* _record_session_end(session_id); stored: db.record_session_end returned *)
RecordSessionEnd(sessions, session_id, stored) ==
    IF session_id \notin DOMAIN sessions
    THEN [map |-> sessions,
          calls |-> << Note("warning:no_such_session", session_id) >>]  \* KeyError
    ELSE
    LET session_data == sessions[session_id]
        duration == Duration(session_data.start_time * UnitsPerSecond,
                                now * UnitsPerSecond)
        write == << Ev("record_session_end", session_id, session_data.user_id,
                       session_data.username, session_data.ip, duration, stored) >>
    IN
    IF ~stored
    THEN [map |-> sessions,
          calls |-> write \o << Note("error:end_failed", session_id) >>]
    ELSE [map |-> [s \in DOMAIN sessions \ {session_id} |-> sessions[s]],
          calls |-> write]

----------------------------------------------------------------------------
(* DatabaseManager: what a write that returned did to playback_history *)

(* record_session_start: INSERT one row, end_time not set *)
DbRecordSessionStart(db, session_id) ==
    [db EXCEPT ![session_id] = [rows |-> @.rows + 1, open |-> @.open + 1]]

(* record_session_end: UPDATE ... WHERE session_id = ?, on every row of the id *)
DbRecordSessionEnd(db, session_id) ==
    [db EXCEPT ![session_id] = [rows |-> @.rows, open |-> 0]]

(* the writes among the calls a handler made, applied in order *)
RECURSIVE DbApply(_, _)
DbApply(db, made) ==
    IF made = << >> THEN db
    ELSE LET e == Head(made) IN
         DbApply(IF e.op = "record_session_start" /\ e.ok
                 THEN DbRecordSessionStart(db, e.sid)
                 ELSE IF e.op = "record_session_end" /\ e.ok
                 THEN DbRecordSessionEnd(db, e.sid)
                 ELSE db,
                 Tail(made))

----------------------------------------------------------------------------
(* process_sessions and run *)

(* a failed fetch taken for an empty session list *)
DiffAppliesAlways(res) == TRUE

(* the try block of process_sessions is left at the call that raises *)
DiffApplies(res) == res.ok

(* process_sessions without its except clause: run's except Exception ends the loop *)
AfterFetchFailureUncaught == "aborted"

(* except Exception in process_sessions: back in run's loop, at time.sleep *)
AfterFetchFailure == "sleep"

(* the loop without the test session_id not in self.active_sessions *)
IsNewSessionAlways(session_id) == TRUE

IsNewSession(session_id) == session_id \notin DOMAIN active_sessions

(* process_sessions up to the return of get_active_sessions *)
ProcessSessions ==
    /\ pc = "tick"
    /\ \E res \in FetchResults :
         /\ fetch_ok' = res.ok
         /\ IF DiffApplies(res)
            THEN /\ current_ids' = res.ids
                 /\ pending' = res.ids
                 /\ pc' = "new"
                 /\ calls' = << >>
            ELSE /\ current_ids' = {}
                 /\ pending' = {}
                 /\ pc' = AfterFetchFailure
                 /\ calls' = << Note("error:update_failed", "") >>
    /\ ended' = {}
    /\ UNCHANGED <<webhook, stopwatch>>
    /\ UNCHANGED <<config, active_sessions, detected, playback_history, now>>

(* what _record_session_start(session) can do for the item stored under
   `key`, over the descriptors the fetch may hold and the answers of
   get_user_info, the database, disable_user and the security log *)
StartOutcomes(sessions, key) ==
    { RecordSessionStart(sessions, key, session, info, stored, info2,
                         disabled, logged) :
        session \in RawSessions, info \in UserInfos, stored \in BOOLEAN,
        info2 \in UserInfos,
        disabled \in { DisableUser(r) : r \in DisableResponses },
        logged \in BOOLEAN }

(* one iteration of the loop of _detect_new_sessions *)
DetectNewSessions ==
    /\ pc = "new"
    /\ \E session_id \in pending :
         /\ pending' = pending \ {session_id}
         /\ IF IsNewSession(session_id)
            THEN \E r \in StartOutcomes(active_sessions, session_id) :
                      /\ active_sessions' = r.map
                      /\ calls' = calls \o r.calls
                      /\ detected' = detected \cup {session_id}
                      /\ playback_history' = DbApply(playback_history, r.calls)
            ELSE \E session \in RawSessions :
                   UNCHANGED <<active_sessions, calls, detected, playback_history>>
    /\ UNCHANGED <<webhook, stopwatch>>
    /\ UNCHANGED <<config, pc, fetch_ok, current_ids, ended, now>>

(* _detect_ended_sessions: the set difference *)
DetectEndedSessions ==
    /\ pc = "new"
    /\ pending = {}
    /\ ended' = DOMAIN active_sessions \ current_ids
    /\ pc' = IF ended' = {} THEN "sleep" ELSE "ended"
    /\ UNCHANGED <<webhook, stopwatch>>
    /\ UNCHANGED <<config, active_sessions, fetch_ok, current_ids, pending,
                   calls, detected, playback_history, now>>

(* one iteration of the loop of _detect_ended_sessions *)
RecordEndedSession ==
    /\ pc = "ended"
    /\ \E session_id \in ended, stored \in BOOLEAN :
         LET r == RecordSessionEnd(active_sessions, session_id, stored)
         IN /\ active_sessions' = r.map
            /\ calls' = calls \o r.calls
            /\ detected' = detected \ {session_id}
            /\ playback_history' = DbApply(playback_history, r.calls)
            /\ ended' = ended \ {session_id}
            /\ pc' = IF ended' = {} THEN "sleep" ELSE "ended"
    /\ UNCHANGED <<webhook, stopwatch>>
    /\ UNCHANGED <<config, fetch_ok, current_ids, pending, now>>

(* time.sleep(check_interval) *)
Sleep ==
    /\ pc = "sleep"
    /\ now < MaxTime
    /\ now' = now + 1
    /\ pc' = "tick"
    /\ UNCHANGED <<webhook, stopwatch>>
    /\ UNCHANGED <<config, active_sessions, fetch_ok, current_ids, pending,
                   ended, calls, detected, playback_history>>

(* the first k of the calls a handler makes *)
Prefix(made, k) == SubSeq(made, 1, k)

(* a handler left after the first k of its calls: the map holds the new
   entry once the insertion was made, and loses none (the del is the
   handler's last statement) *)
CutShort(sessions, r, k) ==
    [map |-> IF \E i \in 1..k : r.calls[i].op = "insert" THEN r.map ELSE sessions,
     calls |-> Prefix(r.calls, k)]

(* KeyboardInterrupt inside _record_session_start: no except clause of the
   handler catches it, so what the handler has done up to there stays done
   and the rest is not run; the for loop has not moved on *)
InterruptedStart ==
    /\ pc = "new"
    /\ \E session_id \in pending :
         /\ IsNewSession(session_id)
         /\ \E part \in UNION { { CutShort(active_sessions, r, k) :
                                       k \in 1..Len(r.calls) } :
                                   r \in StartOutcomes(active_sessions, session_id) } :
              /\ active_sessions' = part.map
              /\ calls' = calls \o part.calls
              /\ detected' = detected \cup {session_id}
              /\ playback_history' = DbApply(playback_history, part.calls)
    /\ pc' = "stopped"
    /\ UNCHANGED <<webhook, stopwatch>>
    /\ UNCHANGED <<config, fetch_ok, current_ids, pending, ended, now>>

(* KeyboardInterrupt inside _record_session_end, at the latest before the
   del of the map entry *)
InterruptedEnd ==
    /\ pc = "ended"
    /\ \E session_id \in ended, stored \in BOOLEAN :
         LET r == RecordSessionEnd(active_sessions, session_id, stored)
         IN \E k \in 1..Len(r.calls) :
              LET part == CutShort(active_sessions, r, k) IN
              /\ calls' = calls \o part.calls
              /\ playback_history' = DbApply(playback_history, part.calls)
    /\ pc' = "stopped"
    /\ UNCHANGED <<webhook, stopwatch>>
    /\ UNCHANGED <<config, active_sessions, fetch_ok, current_ids, pending,
                   ended, detected, now>>

(* KeyboardInterrupt, raised wherever the interpreter is: between two
   statements of run, process_sessions or the detection loops, or inside a
   handler; run catches it and returns *)
KeyboardInterrupt ==
    \/ /\ pc \in {"tick", "new", "ended", "sleep"}
       /\ pc' = "stopped"
       /\ UNCHANGED <<webhook, stopwatch>>
       /\ UNCHANGED <<config, active_sessions, fetch_ok, current_ids, pending,
                      ended, calls, detected, playback_history, now>>
    \/ InterruptedStart
    \/ InterruptedEnd

Next ==
    \/ ProcessSessions
    \/ DetectNewSessions
    \/ DetectEndedSessions
    \/ RecordEndedSession
    \/ Sleep
    \/ KeyboardInterrupt

Spec == Init /\ [][Next]_vars

(* the steps of the loop that wait for no network answer: the set difference
   of _detect_ended_sessions, the sqlite write of _record_session_end (it
   returns or raises when the connection's timeout is over) and time.sleep.
   get_active_sessions, get_user_info, the location lookup and disable_user
   are requests with no timeout and may never return: a tick may stay inside
   ProcessSessions or DetectNewSessions for ever. An interrupt may come or
   not. *)
LoopStep ==
    \/ DetectEndedSessions
    \/ RecordEndedSession
    \/ Sleep

LiveSpec == Init /\ [][Next]_vars /\ WF_vars(LoopStep)

----------------------------------------------------------------------------
(* WebhookNotifier._send_request, one call of it *)

(* config.get('url', ''): not configured, or an address *)
Urls == {"", "http://hook"}

(* config.get('retry_attempts', 3) *)
RetryAttempts == 0..MaxRetry

(* what requests.post followed by raise_for_status does: returns, or raises
   Timeout, another RequestException (HTTPError, ConnectionError), or an
   exception of another class *)
PostOutcomes == {"ok", "Timeout", "RequestException", "Exception"}

(* the except clauses without the last one, except Exception *)
IsCaughtRequestsOnly(outcome) == outcome \in {"Timeout", "RequestException"}

(* the three except clauses of the loop body *)
IsCaught(outcome) == outcome \in {"Timeout", "RequestException", "Exception"}

(* a monitor that is not running, for the runs of the notifier alone *)
MonitorStopped ==
    /\ whitelist = << >>
    /\ auto_disable = FALSE
    /\ alert_threshold = 1
    /\ alerts_enabled = FALSE
    /\ active_sessions = << >>
    /\ pc = "stopped"
    /\ fetch_ok = FALSE
    /\ current_ids = {}
    /\ pending = {}
    /\ ended = {}
    /\ calls = << >>
    /\ detected = {}
    /\ playback_history = [sid \in SessionIds |-> [rows |-> 0, open |-> 0]]
    /\ now = 0

(* a notifier as __init__ leaves it, and _send_request just called *)
WebhookInit ==
    /\ MonitorStopped
    /\ url \in Urls
    /\ retry_attempts \in RetryAttempts
    /\ attempt = 0
    /\ posts = << >>
    /\ sent = "none"
    /\ wpc = "called"
    /\ NoStopwatch

(* if not self.url: return False; else enter the for loop *)
SendRequest ==
    /\ wpc = "called"
    /\ IF url = ""
       THEN sent' = "False" /\ wpc' = "returned"
       ELSE sent' = sent /\ wpc' = "loop"
    /\ attempt' = 0
    /\ UNCHANGED <<url, retry_attempts, posts>>
    /\ UNCHANGED <<monitor, stopwatch>>

(* one iteration of for attempt in range(self.retry_attempts) *)
Post ==
    /\ wpc = "loop"
    /\ attempt < retry_attempts
    /\ \E outcome \in PostOutcomes :
         /\ posts' = Append(posts, outcome)
         /\ IF outcome = "ok"
            THEN sent' = "True" /\ wpc' = "returned" /\ attempt' = attempt
            ELSE IF IsCaught(outcome)
            THEN sent' = sent /\ wpc' = "loop" /\ attempt' = attempt + 1
            ELSE sent' = sent /\ wpc' = "raised" /\ attempt' = attempt
    /\ UNCHANGED <<url, retry_attempts>>
    /\ UNCHANGED <<monitor, stopwatch>>

(* the range is exhausted: the final error line and return False *)
Exhausted ==
    /\ wpc = "loop"
    /\ attempt >= retry_attempts
    /\ sent' = "False"
    /\ wpc' = "returned"
    /\ UNCHANGED <<url, retry_attempts, attempt, posts>>
    /\ UNCHANGED <<monitor, stopwatch>>

WebhookNext ==
    \/ SendRequest
    \/ Post
    \/ Exhausted

WebhookSpec == WebhookInit /\ [][WebhookNext]_vars

(* every requests.post is bounded by timeout=self.timeout, so a call that
   can take a step takes it *)
WebhookLiveSpec == WebhookInit /\ [][WebhookNext]_vars /\ WF_vars(WebhookNext)

----------------------------------------------------------------------------
(* The two readings of datetime.now() in the life of one session, with the
   clock at a finer grain than the check interval. datetime.now() is the
   local wall clock: it follows time, and it is set back when the system
   time is corrected or daylight saving time ends. *)

StopwatchInit ==
    /\ MonitorStopped
    /\ NoWebhook
    /\ clock \in 0..MaxClock
    /\ started_at = 0
    /\ ended_at = 0
    /\ db_duration = 0
    /\ spc = "new"

(* _record_session_start: 'start_time': datetime.now() *)
StartTimed ==
    /\ spc = "new"
    /\ started_at' = clock
    /\ spc' = "tracked"
    /\ UNCHANGED <<clock, ended_at, db_duration>>
    /\ UNCHANGED <<monitor, webhook>>

(* time passes while the session is neither started nor ended yet *)
Elapse ==
    /\ spc \in {"new", "tracked"}
    /\ \E later \in (clock + 1)..MaxClock : clock' = later
    /\ UNCHANGED <<started_at, ended_at, db_duration, spc>>
    /\ UNCHANGED <<monitor, webhook>>

(* the wall clock is set back *)
ClockSetBack ==
    /\ spc \in {"new", "tracked"}
    /\ \E earlier \in 0..(clock - 1) : clock' = earlier
    /\ UNCHANGED <<started_at, ended_at, db_duration, spc>>
    /\ UNCHANGED <<monitor, webhook>>

(* _record_session_end: end_time = datetime.now(), duration = int(...) *)
EndTimed ==
    /\ spc = "tracked"
    /\ ended_at' = clock
    /\ db_duration' = Duration(started_at, clock)
    /\ spc' = "ended"
    /\ UNCHANGED <<clock, started_at>>
    /\ UNCHANGED <<monitor, webhook>>

StopwatchNext ==
    \/ StartTimed
    \/ Elapse
    \/ ClockSetBack
    \/ EndTimed

StopwatchSpec == StopwatchInit /\ [][StopwatchNext]_vars

----------------------------------------------------------------------------
(* Vocabulary of the properties *)

CollaboratorOps ==
    {"record_session_start", "record_session_end", "disable_user",
     "log_security_event", "send_ban_notification"}

(* the positions of the trace the current step added *)
Added == IF Len(calls') > Len(calls) THEN (Len(calls) + 1)..Len(calls') ELSE {}

Inserted(sid) ==
    sid \notin DOMAIN active_sessions /\ sid \in DOMAIN active_sessions'

AlertTriggeredNow == \E i \in Added : calls'[i].op = "_trigger_alert"

HasCall(op) == \E i \in 1..Len(calls) : calls[i].op = op

(* the step was not ended by a KeyboardInterrupt: the handler it ran, if it
   ran one, returned *)
HandlerReturned == pc' # "stopped"

(* the other IPs of the user of session sid, counted in the map m *)
OtherIpsOf(m, sid) ==
    { m[t].ip : t \in { u \in DOMAIN m : m[u].user_id = m[sid].user_id } }
    \ { m[sid].ip }

(* name matches a whitelist entry, both sides trimmed and lower-cased *)
MatchesWhitelist(name) ==
    \E i \in 1..Len(whitelist) :
        Lower(Strip(whitelist[i])) = Lower(Strip(name))

----------------------------------------------------------------------------
(* C1: in a tick whose fetch failed no step changes active_sessions, no
   collaborator is called (no record_session_start, record_session_end,
   disable_user, log_security_event) and neither detection loop is entered. *)
C1_FailedFetchAppliesNoDiff ==
    [][ ~fetch_ok' =>
          /\ active_sessions' = active_sessions
          /\ \A i \in 1..Len(calls') : calls'[i].op \notin CollaboratorOps
          /\ \A i \in 1..Len(calls') : calls'[i].op # "_record_session_start"
          /\ pc' \notin {"new", "ended"} ]_vars

(* a failed fetch while sessions are tracked *)
C1_Witness ==
    /\ pc = "sleep"
    /\ ~fetch_ok
    /\ HasCall("error:update_failed")
    /\ active_sessions # << >>

(* C2: a step whose handler returned and that inserts a session into
   active_sessions triggers an alert iff alerts are enabled and the user's
   sessions in the map show at least alert_threshold - 1 distinct IPs other
   than the new session's own; no step, interrupted or not, triggers an alert
   without such an insertion, and with alerts disabled no step triggers one. *)
C2_AlertIffThreshold ==
    [][ /\ \A sid \in SessionIds :
             (Inserted(sid) /\ HandlerReturned) =>
               ( AlertTriggeredNow
                 <=> /\ alerts_enabled
                     /\ Cardinality(OtherIpsOf(active_sessions', sid))
                          >= alert_threshold - 1 )
        /\ AlertTriggeredNow =>
             /\ alerts_enabled
             /\ \E sid \in SessionIds :
                    /\ Inserted(sid)
                    /\ Cardinality(OtherIpsOf(active_sessions', sid))
                         >= alert_threshold - 1
        /\ ~alerts_enabled => ~AlertTriggeredNow ]_vars

(* an alert for a second IP of a user, and beside it a threshold not reached *)
C2_Witness ==
    /\ alert_threshold = 2
    /\ alerts_enabled
    /\ HasCall("_trigger_alert")
    /\ Cardinality(DOMAIN active_sessions) = 2

(* C3: no session_data in active_sessions and no record_session_start,
   record_session_end, disable_user, log_security_event or webhook call is for
   a user name that matches a whitelist entry (both trimmed and lower-cased). *)
C3_WhitelistedNeverActedOn ==
    /\ \A sid \in DOMAIN active_sessions :
           ~MatchesWhitelist(active_sessions[sid].username)
    /\ \A i \in 1..Len(calls) :
           calls[i].op \in CollaboratorOps
             => ~MatchesWhitelist(calls[i].username)

(* a tick that skipped a whitelisted session at discovery and stopped an alert
   at the second whitelist test *)
C3_Witness ==
    /\ pc = "sleep"
    /\ \E i \in 1..Len(calls) :
           /\ calls[i].op = "whitelist_skip"
           /\ calls[i].username # Lower(calls[i].username)
           /\ calls[i].sid \notin DOMAIN active_sessions
    /\ HasCall("whitelist_protected")

(* every session of the user of sid in the map m has the IP of sid *)
SameIpOnly(m, sid) ==
    \A t \in DOMAIN m : m[t].user_id = m[sid].user_id => m[t].ip = m[sid].ip

(* C4 as stated: for every alert_threshold >= 1, a session inserted while all
   the sessions of its user in the map (itself included) have one and the same
   IP triggers no alert. *)
C4_SameIpNeverAlerts ==
    [][ \A sid \in SessionIds :
          Inserted(sid) /\ SameIpOnly(active_sessions', sid)
            => ~AlertTriggeredNow ]_vars

(* C4 amended: for every alert_threshold >= 2, a session inserted while all the
   sessions of its user in the map (itself included) have one and the same IP
   triggers no alert. *)
C4_SameIpNeverAlertsFromTwo ==
    [][ \A sid \in SessionIds :
          alert_threshold >= 2 /\ Inserted(sid) /\ SameIpOnly(active_sessions', sid)
            => ~AlertTriggeredNow ]_vars

(* two sessions of one user on one IP started in a tick, alerts on, no alert *)
C4_Witness ==
    /\ alert_threshold >= 2
    /\ alerts_enabled
    /\ pc = "sleep"
    /\ \E s, t \in DOMAIN active_sessions :
           /\ s # t
           /\ active_sessions[s].user_id = active_sessions[t].user_id
           /\ active_sessions[s].ip = active_sessions[t].ip
           /\ active_sessions[t].start_time = now
    /\ ~HasCall("_trigger_alert")

(* C5: a log_security_event (and a webhook call) directly follows a
   disable_user that returned True for the same user; with auto_disable off
   there is no disable_user, security-log or webhook call; a disable_user that
   returned False is followed by neither, and every disable_user comes after
   the alert message of its alert. *)
C5_LogOnlyAfterConfirmedDisable ==
    /\ \A i \in 1..Len(calls) :
           calls[i].op \in {"log_security_event", "send_ban_notification"}
             => /\ i > 1
                /\ calls[i-1].op = "disable_user"
                /\ calls[i-1].ok
                /\ calls[i-1].user_id = calls[i].user_id
    /\ ~auto_disable =>
           \A i \in 1..Len(calls) :
               calls[i].op \notin {"disable_user", "log_security_event",
                                   "send_ban_notification"}
    /\ \A i \in 1..Len(calls) :
           calls[i].op = "disable_user"
             => /\ i > 1
                /\ calls[i-1].op = "alert_msg"
                /\ calls[i-1].user_id = calls[i].user_id

(* disable_user returned False after the alert message, and the tick ended *)
C5_Witness ==
    /\ pc = "sleep"
    /\ \E i \in 2..Len(calls) :
           /\ calls[i].op = "disable_user"
           /\ ~calls[i].ok
           /\ calls[i-1].op = "alert_msg"

(* C6 as stated: after a disable_user that returned True in an alert for a
   user who is not whitelisted, the same alert makes a log_security_event call
   and a send_ban_notification call for that user. *)
C6_ConfirmedDisableLoggedAndNotified ==
    \A i \in 1..Len(calls) :
        calls[i].op = "disable_user" /\ calls[i].ok
          => /\ \E j \in (i+1)..Len(calls) :
                    /\ calls[j].op = "log_security_event"
                    /\ calls[j].user_id = calls[i].user_id
             /\ \E j \in (i+1)..Len(calls) :
                    /\ calls[j].op = "send_ban_notification"
                    /\ calls[j].user_id = calls[i].user_id

(* C7 as stated: a session whose record_session_start raised is in
   active_sessions all the same. *)
C7_FailedStartStillInserted ==
    \A i \in 1..Len(calls) :
        calls[i].op = "record_session_start" /\ ~calls[i].ok
          => calls[i].sid \in DOMAIN active_sessions

(* C8 as stated: after a tick whose fetch succeeded every id of
   active_sessions is in the fetched list, whatever record_session_end did. *)
C8_MapWithinFetchAfterTick ==
    (pc = "sleep" /\ fetch_ok) => DOMAIN active_sessions \subseteq current_ids

StartHandledNow(sid) ==
    \E i \in Added : calls'[i].op = "_record_session_start" /\ calls'[i].sid = sid

EndStoredNow(sid) ==
    \E i \in Added :
        calls'[i].op = "record_session_end" /\ calls'[i].sid = sid /\ calls'[i].ok

(* C9 as stated: start handling is not triggered for an id for which it was
   triggered before with no end detected since. *)
C9_NeverNewTwiceWithoutEnd ==
    [][ \A sid \in SessionIds : StartHandledNow(sid) => sid \notin detected ]_vars

(* C9 amended: start handling is triggered only for an id that is not in
   active_sessions; an id enters the map only by its start handling and leaves
   it only by an end handling whose record_session_end succeeded. So an id that
   entered the map is not detected as new again before it was removed. *)
C9_NeverNewWhileInMap ==
    [][ \A sid \in SessionIds :
          /\ StartHandledNow(sid) => sid \notin DOMAIN active_sessions
          /\ Inserted(sid) => StartHandledNow(sid)
          /\ (sid \in DOMAIN active_sessions /\ sid \notin DOMAIN active_sessions')
               => EndStoredNow(sid) ]_vars

(* a session of an earlier tick is fetched again and iterated over without
   start handling *)
C9_Witness ==
    \E sid \in DOMAIN active_sessions :
        /\ active_sessions[sid].start_time < now
        /\ sid \in current_ids \ pending
        /\ pc = "new"
        /\ fetch_ok
        /\ \A i \in 1..Len(calls) : calls[i].sid # sid

ErrorNotes ==
    {"error:update_failed", "error:missing_field", "error:start_failed",
     "error:end_failed", "error:alert_failed", "error:security_log_failed"}

(* the current tick met a failed fetch, a malformed record, a failed
   persistence call, a failed disable_user or an exception of the alert path *)
TickHadError ==
    \/ \E i \in 1..Len(calls) : calls[i].op \in ErrorNotes
    \/ \E i \in 1..Len(calls) : calls[i].op = "disable_user" /\ ~calls[i].ok

(* C10: run's except Exception is never reached, and a tick that met an error
   and whose handlers of new sessions have all returned is followed by the
   sleep and by the next call of process_sessions, unless an interrupt stops
   the loop (MaxTime is where the model's clock ends). *)
C10_LoopSurvivesErrors ==
    /\ [](pc # "aborted")
    /\ (/\ TickHadError
        /\ pc \in {"new", "ended", "sleep"}
        /\ pending = {}
        /\ now < MaxTime)
         ~> (pc = "tick" \/ pc = "stopped")

(* a tick with a failed disable_user and a failed persistence call, asleep *)
C10_Witness ==
    /\ pc = "sleep"
    /\ now < MaxTime
    /\ \E i \in 1..Len(calls) : calls[i].op = "disable_user" /\ ~calls[i].ok
    /\ \E i \in 1..Len(calls) : calls[i].op = "error:start_failed"

(* the _trigger_alert entries the current step added *)
AlertsAddedNow == { i \in Added : calls'[i].op = "_trigger_alert" }

(* C11: a step triggers at most one alert, and only a step that inserts a
   session into active_sessions does, for the user and IP of that session;
   iterating over a session already in the map, ending sessions, sleeping and
   fetching trigger none, however many IPs the user's sessions show. *)
C11_AlertOnlyOnInsertion ==
    [][ /\ Cardinality(AlertsAddedNow) <= 1
        /\ \A i \in AlertsAddedNow :
             \E sid \in SessionIds :
                 /\ Inserted(sid)
                 /\ calls'[i].user_id = active_sessions'[sid].user_id
                 /\ calls'[i].ip = active_sessions'[sid].ip ]_vars

(* a whole tick over two sessions of one user on two IPs, both tracked since
   the tick before, with alerts on and the threshold met: no alert *)
C11_Witness ==
    /\ pc = "sleep"
    /\ fetch_ok
    /\ alerts_enabled
    /\ alert_threshold = 2
    /\ current_ids = SessionIds
    /\ \E s, t \in DOMAIN active_sessions :
           /\ active_sessions[s].user_id = active_sessions[t].user_id
           /\ active_sessions[s].ip # active_sessions[t].ip
           /\ active_sessions[s].start_time < now
           /\ active_sessions[t].start_time < now
    /\ calls = << >>

(* the IPs of all sessions of the user of sid in the map m, sid included *)
AllIpsOf(m, sid) ==
    { m[t].ip : t \in { u \in DOMAIN m : m[u].user_id = m[sid].user_id } }

(* C12: the session count of an alert is the number of distinct IPs among the
   user's sessions in active_sessions, the triggering session included (one
   more than the distinct other IPs), and its trigger IP is the IP of the
   session just inserted. *)
C12_SessionCountIsDistinctIps ==
    [][ \A i \in AlertsAddedNow :
          \A sid \in SessionIds :
              Inserted(sid) =>
                /\ calls'[i].n = Cardinality(AllIpsOf(active_sessions', sid))
                /\ calls'[i].n = 1 + Cardinality(OtherIpsOf(active_sessions', sid))
                /\ calls'[i].ip = active_sessions'[sid].ip ]_vars

(* alert_threshold 2, S1 of u1 on IP "1" tracked since the tick before, S2 of
   u1 on IP "2" started now: the alert reports 2 and IP "2" *)
C12_Witness ==
    /\ alert_threshold = 2
    /\ DOMAIN active_sessions = {"s1", "s2"}
    /\ active_sessions["s1"].user_id = "u1"
    /\ active_sessions["s2"].user_id = "u1"
    /\ active_sessions["s1"].ip = <<"1">>
    /\ active_sessions["s2"].ip = <<"2">>
    /\ active_sessions["s1"].start_time < active_sessions["s2"].start_time
    /\ \E i \in 1..Len(calls) :
           /\ calls[i].op = "_trigger_alert"
           /\ calls[i].n = 2
           /\ calls[i].ip = <<"2">>
           /\ calls[i].user_id = "u1"

----------------------------------------------------------------------------
(* the calls of the current tick made for session sid with operation op *)
CallsOf(op, sid) ==
    { i \in 1..Len(calls) : calls[i].op = op /\ calls[i].sid = sid }

StartStoredNow(sid) ==
    \E i \in Added :
        calls'[i].op = "record_session_start" /\ calls'[i].sid = sid /\ calls'[i].ok

(* a tick whose fetch succeeded, whose handlers all finished and in which no
   call failed and no record was malformed *)
CleanTickDone == pc = "sleep" /\ fetch_ok /\ ~TickHadError

(* C13: with every call succeeding, an id that is fetched and not whitelisted
   is in the map with an open row after its tick, and an id absent from the
   fetch is out of the map after its tick; a step whose handler returned puts
   an id into the map exactly with one stored record_session_start (one more
   row, open) and takes it out exactly with one stored record_session_end
   (no row of the id left open), and no tick calls either more than once for
   an id. *)
C13_OneStartThenOneEnd ==
    /\ [](\A sid \in SessionIds :
            /\ Cardinality(CallsOf("record_session_start", sid)) <= 1
            /\ Cardinality(CallsOf("record_session_end", sid)) <= 1
            /\ (CleanTickDone /\ sid \notin current_ids)
                 => sid \notin DOMAIN active_sessions
            /\ (CleanTickDone /\ sid \in current_ids
                              /\ CallsOf("whitelist_skip", sid) = {})
                 => /\ sid \in DOMAIN active_sessions
                    /\ playback_history[sid].open >= 1)
    /\ [][\A sid \in SessionIds :
            /\ Inserted(sid) => StartStoredNow(sid)
            /\ (HandlerReturned /\ StartStoredNow(sid)) => Inserted(sid)
            /\ StartStoredNow(sid)
                 => playback_history'[sid] =
                      [rows |-> playback_history[sid].rows + 1,
                       open |-> playback_history[sid].open + 1]
            /\ (sid \in DOMAIN active_sessions /\ sid \notin DOMAIN active_sessions')
                 => EndStoredNow(sid)
            /\ (HandlerReturned /\ EndStoredNow(sid))
                 => sid \notin DOMAIN active_sessions'
            /\ EndStoredNow(sid)
                 => /\ sid \in DOMAIN active_sessions
                    /\ playback_history[sid].open >= 1
                    /\ playback_history'[sid] =
                         [rows |-> playback_history[sid].rows, open |-> 0]]_vars

(* a session started in one tick and absent from the next fetch: after that
   tick its one row is closed by the one record_session_end, the map is
   without it *)
C13_Witness ==
    /\ CleanTickDone
    /\ now = 1
    /\ \E sid \in SessionIds :
         /\ sid \notin current_ids
         /\ sid \notin DOMAIN active_sessions
         /\ playback_history[sid] = [rows |-> 1, open |-> 0]
         /\ Cardinality(CallsOf("record_session_end", sid)) = 1
         /\ \A i \in CallsOf("record_session_end", sid) : calls[i].ok /\ calls[i].n = 1

----------------------------------------------------------------------------
(* the current step handled, as new, a session sid that lacks 'Id' or
   'UserId', or whose get_user_info raised *)
UnusableNow(sid) ==
    \E i \in Added :
        /\ calls'[i].sid = sid
        /\ calls'[i].op \in {"_record_session_start", "get_user_info"}
        /\ ~calls'[i].ok

(* no line of the trace says that sid was skipped or that a call for it failed *)
HandledWithoutError(sid) ==
    \A i \in 1..Len(calls) :
        calls[i].sid = sid =>
            calls[i].op \notin {"whitelist_skip", "error:missing_field",
                                "error:start_failed", "error:end_failed"}

(* C14: the step that handles a session lacking a required field or with an
   unresolvable user leaves the map and the database as they are, makes no
   persistence, disable or alert call, and, its handler having returned, goes
   on with the rest of the fetched sessions; when the tick is over every other fetched session is in
   the map and every vanished one is out of it, unless a line of the trace
   reports its own skip or failure. *)
C14_UnusableSessionSkippedAlone ==
    /\ [][\A sid \in SessionIds :
            UnusableNow(sid)
              => /\ active_sessions' = active_sessions
                 /\ playback_history' = playback_history
                 /\ \A i \in Added :
                        calls'[i].op \notin CollaboratorOps \cup {"_trigger_alert"}
                 /\ HandlerReturned
                      => pc' = "new" /\ pending' = pending \ {sid}]_vars
    /\ [](\A sid \in SessionIds :
            (pc = "sleep" /\ fetch_ok /\ HandledWithoutError(sid))
              => (sid \in DOMAIN active_sessions <=> sid \in current_ids))

(* one tick fetched two sessions: s1 lacked a field or its user, s2 was
   started and is in the map *)
C14_Witness ==
    /\ pc = "sleep" /\ fetch_ok
    /\ current_ids = SessionIds
    /\ DOMAIN active_sessions = {"s2"}
    /\ \E i \in 1..Len(calls) :
         /\ calls[i].sid = "s1"
         /\ calls[i].op \in {"_record_session_start", "get_user_info"}
         /\ ~calls[i].ok
    /\ \E i \in CallsOf("record_session_start", "s2") : calls[i].ok

----------------------------------------------------------------------------
(* the distinct IPs that the fetched list of the current tick can hold for
   user_id once the step is taken: the IPs of the user's fetched sessions in
   the map, and at most one more for each fetched id that is not in the map *)
FetchedIpsBound(user_id) ==
    Cardinality({ active_sessions'[t].ip :
                    t \in { u \in DOMAIN active_sessions' \cap current_ids :
                              active_sessions'[u].user_id = user_id } })
    + Cardinality(current_ids \ DOMAIN active_sessions')

(* C15 as stated: when an alert is triggered for a user, that user's sessions
   of the tick's fetched list span at least alert_threshold distinct IPs. *)
C15_AlertCountsFetchedSessionsOnly ==
    [][\A i \in AlertsAddedNow :
          FetchedIpsBound(calls'[i].user_id) >= alert_threshold]_vars

----------------------------------------------------------------------------
(* positions of the trace where a call of the alert path raised or was refused *)
IsAlertPathFailure(e) ==
    \/ e.op \in {"error:alert_failed", "error:security_log_failed"}
    \/ e.op = "disable_user" /\ ~e.ok

AlertPathFailedNow == \E i \in Added : IsAlertPathFailure(calls'[i])

(* every session whose own handling met no skip and no failure is in the map
   exactly if it was fetched *)
DiffComplete ==
    \A sid \in SessionIds :
        HandledWithoutError(sid)
          => (sid \in DOMAIN active_sessions <=> sid \in current_ids)

(* C16: a step that entered the alert path, whether or not a call in it
   raised (get_user_info, log_security_event) or disable_user failed, still
   inserts the session that triggered the alert and stores its start, prints
   no failure of _record_session_start or of process_sessions, and, its
   handler having returned, goes on with the remaining new sessions; the failures of the alert path occur in
   such steps only, and a tick that met one reaches its sleep with the whole
   diff applied. *)
C16_AlertPathFailureContained ==
    /\ [][(AlertPathFailedNow \/ AlertsAddedNow # {})
            => /\ AlertsAddedNow # {}
               /\ \E sid \in SessionIds :
                    /\ Inserted(sid)
                    /\ StartStoredNow(sid)
                    /\ HandlerReturned => pending' = pending \ {sid}
               /\ \A i \in Added :
                      calls'[i].op \notin {"error:start_failed",
                                           "error:missing_field",
                                           "error:update_failed"}
               /\ HandlerReturned => pc' = "new"]_vars
    /\ []((pc = "sleep" /\ \E i \in 1..Len(calls) : IsAlertPathFailure(calls[i]))
            => /\ DiffComplete
               /\ pending = {} /\ ended = {})

(* s1 was tracked, the start of s2 raised an alert whose handling failed;
   s2 is in the map and the tick went on to end the vanished s1 *)
C16_Witness ==
    /\ pc = "sleep"
    /\ current_ids = {"s2"}
    /\ DOMAIN active_sessions = {"s2"}
    /\ \E i \in 1..Len(calls) :
         /\ calls[i].op = "error:alert_failed"
         /\ \E j \in CallsOf("record_session_end", "s1") : i < j /\ calls[j].ok

----------------------------------------------------------------------------
(* the tick whose trace is made has changed the map m: it inserted an id,
   or stored the end of an id and deleted its entry *)
MapChangedThisTick(m, made) ==
    \E i \in 1..Len(made) :
        \/ made[i].op = "insert"
        \/ /\ made[i].op = "record_session_end"
           /\ made[i].ok
           /\ made[i].sid \notin DOMAIN m

(* the diff of the current tick, at position at of the loop and with the map
   m, still has a handler to run or to finish: a fetched id that is not in
   the map awaits the return of _record_session_start, or an id of the map
   that was not fetched awaits that of _record_session_end *)
DiffOutstanding(at, m) ==
    \/ at = "new" /\ fetch_ok /\ \E sid \in pending : sid \notin DOMAIN m
    \/ at = "new" /\ fetch_ok /\ DOMAIN m \ current_ids # {}
    \/ at = "ended" /\ ended \cap DOMAIN m # {}

(* C17 as stated: when the loop stops, the map is the one the tick started
   with or the one its complete diff yields, never one in between. *)
C17_StopsOnlyAtTickBoundary ==
    [][(pc # "stopped" /\ pc' = "stopped")
          => ~(/\ MapChangedThisTick(active_sessions', calls')
               /\ DiffOutstanding(pc, active_sessions'))]_vars

----------------------------------------------------------------------------
(* sid is in the map and in the list of the tick's fetch, or in the map when
   the fetch is about to be made *)
TrackedAndFetched(sid) ==
    /\ sid \in DOMAIN active_sessions
    /\ \/ pc = "tick"
       \/ pc \in {"new", "ended", "sleep"} /\ fetch_ok /\ sid \in current_ids

(* C18: no step of a tick changes the map entry of an id that is in the map
   and in the fetched list, whatever session the fetch holds for it, and no
   step makes a call or prints a line for it or touches its rows. *)
C18_TrackedEntryNotRefreshed ==
    [][\A sid \in SessionIds :
          TrackedAndFetched(sid)
            => /\ sid \in DOMAIN active_sessions'
               /\ active_sessions'[sid] = active_sessions[sid]
               /\ playback_history'[sid] = playback_history[sid]
               /\ \A i \in Added : calls'[i].sid # sid]_vars

(* a session started in the first tick was fetched again in the second: the
   tick is over, its entry still has the first tick's start time and the
   trace has nothing for it *)
C18_Witness ==
    /\ pc = "sleep" /\ fetch_ok /\ now = 1
    /\ \E sid \in current_ids \cap DOMAIN active_sessions :
         /\ active_sessions[sid].start_time = 0
         /\ playback_history[sid] = [rows |-> 1, open |-> 1]
         /\ \A i \in 1..Len(calls) : calls[i].sid # sid

----------------------------------------------------------------------------
(* C19: an id enters the map only in a step that stored its
   record_session_start, and while the loop runs an id of the map has an open
   row; record_session_end is called, successfully or not, only for an id of
   the map, whose row is open; a successful call leaves no row of the id open
   and is followed by the removal of the id or by the stop of the loop, and
   a stopped loop makes no step, so that no second successful call can
   follow for the same start. *)
C19_MapEntriesArePersistedStarts ==
    /\ [](\A sid \in SessionIds :
            (pc # "stopped" /\ sid \in DOMAIN active_sessions)
              => playback_history[sid].open >= 1)
    /\ [][/\ pc # "stopped"
          /\ \A sid \in SessionIds :
               /\ Inserted(sid) => StartStoredNow(sid)
               /\ EndStoredNow(sid)
                    => sid \notin DOMAIN active_sessions' \/ pc' = "stopped"
          /\ \A i \in Added :
               calls'[i].op = "record_session_end"
                 => /\ calls'[i].sid \in DOMAIN active_sessions
                    /\ playback_history[calls'[i].sid].open >= 1
                    /\ playback_history'[calls'[i].sid].open
                         = IF calls'[i].ok THEN 0
                           ELSE playback_history[calls'[i].sid].open
                    /\ playback_history'[calls'[i].sid].rows
                         = playback_history[calls'[i].sid].rows]_vars

(* the start of a session was stored in the first tick; in the second the
   session had vanished and record_session_end was called for its open row
   and raised: the row stays open and the id stays in the map *)
C19_Witness ==
    /\ now = 1 /\ pc = "sleep" /\ fetch_ok
    /\ \E sid \in DOMAIN active_sessions \ current_ids :
         /\ active_sessions[sid].start_time = 0
         /\ playback_history[sid] = [rows |-> 1, open |-> 1]
         /\ Cardinality(CallsOf("record_session_end", sid)) = 1
         /\ \A i \in CallsOf("record_session_end", sid) : ~calls[i].ok

----------------------------------------------------------------------------
(* the entries of the trace that belong to the handling of an ended session *)
EndOps == {"record_session_end", "error:end_failed", "warning:no_such_session"}

(* what the entry just before an entry of the trace must be *)
ComesRightAfter(e, before) ==
    CASE e.op = "get_user_info" ->
           before.op = "_record_session_start" /\ before.sid = e.sid
      [] e.op \in {"whitelist_skip", "record_session_start"} ->
           before.op = "get_user_info" /\ before.ok /\ before.sid = e.sid
      [] e.op = "insert" ->
           before.op = "record_session_start" /\ before.ok /\ before.sid = e.sid
      [] e.op = "_trigger_alert" ->
           before.op = "insert" /\ before.user_id = e.user_id /\ before.ip = e.ip
      [] e.op \in {"alert_msg", "whitelist_protected"} ->
           before.op = "_trigger_alert"
      [] e.op = "disable_user" -> before.op = "alert_msg"
      [] e.op = "log_security_event" -> before.op = "disable_user" /\ before.ok
      [] OTHER -> TRUE

(* C20: in the trace of a tick the whitelist decision follows the user
   lookup and precedes record_session_start, which is made for names off the
   whitelist only; the insertion follows the stored record_session_start, the
   alert of the concurrency check follows the insertion, disable_user follows
   the alert message and log_security_event the confirmed disable_user; and
   once an ended session has been handled no entry of a new session follows. *)
C20_CallOrder ==
    /\ \A i \in 1..Len(calls) :
         /\ calls[i].op \in {"get_user_info", "whitelist_skip",
                             "record_session_start", "insert", "_trigger_alert",
                             "alert_msg", "whitelist_protected", "disable_user",
                             "log_security_event"}
              => i > 1 /\ ComesRightAfter(calls[i], calls[i - 1])
         /\ calls[i].op = "record_session_start"
              => ~MatchesWhitelist(calls[i].username)
         /\ calls[i].op = "whitelist_skip" => MatchesWhitelist(calls[i].username)
    /\ \A i, j \in 1..Len(calls) :
         (i < j /\ calls[i].op \in EndOps) => calls[j].op \in EndOps

(* one tick started a session, raised the alert, disabled the user, logged
   it and then ended a vanished session *)
C20_Witness ==
    /\ pc = "sleep"
    /\ Len(calls) = 9
    /\ [i \in 1..9 |-> calls[i].op]
         = << "_record_session_start", "get_user_info", "record_session_start",
              "insert", "_trigger_alert", "alert_msg", "disable_user",
              "log_security_event", "record_session_end" >>
    /\ \A i \in 1..9 : calls[i].ok

----------------------------------------------------------------------------
(* the positions of posts at which the request succeeded *)
Succeeded == { i \in 1..Len(posts) : posts[i] = "ok" }

(* C21: a call of _send_request makes at most retry_attempts requests and
   none after a successful one; it returns, and never raises; it returns
   True exactly if a request succeeded, and False either with no request
   made (no url, or retry_attempts 0) or after retry_attempts failed ones. *)
C21_SendRequestBoundedRetries ==
    /\ [](Len(posts) <= retry_attempts)
    /\ [](\A i \in Succeeded : i = Len(posts))
    /\ [](wpc # "raised")
    /\ [](wpc = "returned"
            => /\ sent \in {"True", "False"}
               /\ sent = "True" <=> Succeeded # {}
               /\ sent = "False"
                    => \/ url = "" /\ posts = << >>
                       \/ url # "" /\ Len(posts) = retry_attempts)
    /\ [](wpc # "returned" => sent = "none")
    /\ <>(wpc = "returned")

(* three attempts configured: a timeout, an exception of another class, then
   a success, and True returned *)
C21_Witness ==
    /\ wpc = "returned"
    /\ retry_attempts = 3
    /\ posts = << "Timeout", "Exception", "ok" >>
    /\ sent = "True"

----------------------------------------------------------------------------
(* C22 as stated: the duration handed to record_session_end is the number
   of whole seconds, rounded down, from the reading taken at the start of the
   session to the reading taken when its end was detected, and it is not
   negative. *)
C22_DurationIsFloorAndNonNegative ==
    spc = "ended"
      => /\ db_duration = (ended_at - started_at) \div UnitsPerSecond
         /\ db_duration >= 0

====
